---- MODULE Spec2Model ----
(***************************************************************************)
(* A model of sage.structure.category_object: the CategoryObject class     *)
(* (category, base, names, LaTeX names, the per-instance attribute cache   *)
(* and the pickling hooks) and the module functions normalize_names and    *)
(* certify_names.                                                          *)
(*                                                                         *)
(* Spec is the object under the calls that read and write its category,    *)
(* base, names and attribute cache; SpecHash is the object under the calls *)
(* that compute its hash or change its display form; SpecNames is the two  *)
(* module functions on their arguments; SpecGens is gens_dict_recursive()  *)
(* on a tower of bases; SpecResolve is two callers inside the attribute    *)
(* lookup of one object and two inside _refine_category_, their steps      *)
(* interleaved.                                                            *)
(*                                                                         *)
(* Python values are records [t |-> <type tag>, v |-> <payload>].  A       *)
(* Python str is a sequence of one-character strings, so that strip,       *)
(* split, isalnum and indexing are computed character by character.        *)
(***************************************************************************)
EXTENDS Integers, Sequences, FiniteSets, TLC

VARIABLES
    _category,         \* self._category: None or a category
    _base,             \* self._base
    _names,            \* self._names: None or a tuple of str
    __dict__,          \* self.__dict__: the attributes in the instance dict, or NoDict
    __cached_methods,  \* self.__cached_methods: dict, attribute name -> binding
    _hash_value,       \* self._hash_value: -1 until the hash is computed
    __custom_name,     \* the name given by rename(), None without one
    heap,              \* the objects of a tower of bases: for each its _base and its generators
    frames,            \* the objects whose gens_dict_recursive() is running, innermost last
    calls,             \* per caller, how far its getattr_from_category() has run, and its locals
    lookups,           \* per attribute name, how often a binding was derived from a behaviour table
    pre,               \* the object's fields when the last call started
    op,                \* the last call made on the object, with its arguments
    ret                \* what that call returned or raised

vars == <<_category, _base, _names, __dict__, __cached_methods, _hash_value,
          __custom_name, heap, frames, calls, lookups, pre, op, ret>>

----------------------------------------------------------------------------
(* Python values *)

None == [t |-> "none", v |-> <<>>]
PyStr(s) == [t |-> "str", v |-> s]
PyTuple(s) == [t |-> "tuple", v |-> s]
PyList(s) == [t |-> "list", v |-> s]
PyObj(s) == [t |-> "obj", v |-> s]
PyBool(b) == [t |-> "bool", v |-> b]
PyInt(i) == [t |-> "int", v |-> i]
PyDict(d) == [t |-> "dict", v |-> d]

\* Python ==: values of different types are different (a list never equals a tuple)
PyEq(a, b) == a.t = b.t /\ a.v = b.v

\* the outcome of a call: a returned value or a raised exception
Return(x) == [exc |-> "none", msg |-> "", val |-> x]
Raise(e, m) == [exc |-> e, msg |-> m, val |-> None]

----------------------------------------------------------------------------
(* Characters and str methods *)

Letters == {"a", "b", "x", "y", "N", "o", "n", "e"}
Digits == {"0", "1", "2", "3", "4", "5", "6", "7", "8", "9"}
Whitespace == {" "}

isalpha_char(c) == c \in Letters
isalnum_char(c) == c \in Letters \cup Digits

\* str.isalnum(): non-empty and every character alphanumeric
isalnum(s) == s # <<>> /\ \A i \in 1..Len(s) : isalnum_char(s[i])

\* str.replace("_", "")
replace_underscore(s) == SelectSeq(s, LAMBDA c : c # "_")

RECURSIVE lstrip(_)
lstrip(s) == IF s # <<>> /\ s[1] \in Whitespace THEN lstrip(Tail(s)) ELSE s

RECURSIVE rstrip(_)
rstrip(s) ==
    IF s # <<>> /\ s[Len(s)] \in Whitespace THEN rstrip(SubSeq(s, 1, Len(s) - 1)) ELSE s

\* str.strip()
strip(s) == rstrip(lstrip(s))

\* str.split(','): the segments between the commas, empty segments kept
RECURSIVE split_comma(_, _)
split_comma(s, cur) ==
    IF s = <<>> THEN <<cur>>
    ELSE IF s[1] = "," THEN <<cur>> \o split_comma(Tail(s), <<>>)
    ELSE split_comma(Tail(s), Append(cur, s[1]))

\* str(i) for an integer i >= 0
DigitSeq == <<"0", "1", "2", "3", "4", "5", "6", "7", "8", "9">>
RECURSIVE int_str(_)
int_str(i) == IF i < 10 THEN <<DigitSeq[i + 1]>> ELSE int_str(i \div 10) \o <<DigitSeq[(i % 10) + 1]>>

\* An element of a list of names is a str, or some other object, which is
\* written as the marker "#" followed by the characters of its display form.
IsStr(N) == N = <<>> \/ N[1] # "#"
str_of(N) == IF IsStr(N) THEN N ELSE Tail(N)

----------------------------------------------------------------------------
(* certify_names and normalize_names *)

\* the loop of certify_names with the first letter checked before the
\* characters
RECURSIVE certify_from_reordered(_, _, _)
certify_from_reordered(nms, i, s) ==
    IF i > Len(nms) THEN Return(PyBool(TRUE))
    ELSE LET N == nms[i] IN
        IF ~IsStr(N) THEN Raise("TypeError", "must be a string")
        ELSE IF N = <<>> THEN Raise("ValueError", "variable name must be nonempty")
        ELSE IF ~isalpha_char(N[1]) THEN Raise("ValueError", "does not start with a letter")
        ELSE IF ~isalnum(replace_underscore(N)) THEN Raise("ValueError", "is not alphanumeric")
        ELSE IF N \in s THEN Raise("ValueError", "appears more than once")
        ELSE certify_from_reordered(nms, i + 1, s \cup {N})

\* the loop of certify_names from position i on, s the set of names seen
RECURSIVE certify_from(_, _, _)
certify_from(nms, i, s) ==
    IF i > Len(nms) THEN Return(PyBool(TRUE))
    ELSE LET N == nms[i] IN
        IF ~IsStr(N) THEN Raise("TypeError", "must be a string")
        ELSE IF N = <<>> THEN Raise("ValueError", "variable name must be nonempty")
        ELSE IF ~isalnum(replace_underscore(N)) THEN Raise("ValueError", "is not alphanumeric")
        ELSE IF ~isalpha_char(N[1]) THEN Raise("ValueError", "does not start with a letter")
        ELSE IF N \in s THEN Raise("ValueError", "appears more than once")
        ELSE certify_from(nms, i + 1, s \cup {N})

\* iterating a str yields its characters, iterating a list or tuple its elements
iter(x) == IF x.t = "str" THEN [i \in 1..Len(x.v) |-> <<x.v[i]>>] ELSE x.v

\* certify_names with the first letter checked before the characters
certify_names_reordered(x) == certify_from_reordered(iter(x), 1, {})

certify_names(x) == certify_from(iter(x), 1, {})

\* variable_names(n, name) that appends the index for a single name too
variable_names_default_suffixing(n, name) ==
    PyTuple([i \in 1..n |-> name \o int_str(i - 1)])

\* sage.misc.defaults.variable_names(n, name), as the doctests of
\* normalize_names show it: nn(1, 'a') = ('a',), nn(2, 'x0') = ('x00', 'x01')
variable_names_default(n, name) ==
    IF n = 1 THEN PyTuple(<<name>>)
    ELSE PyTuple([i \in 1..n |-> name \o int_str(i - 1)])

\* str(names) for an argument that is no list or tuple
str_arg(x) ==
    IF x.t = "none" THEN <<"N", "o", "n", "e">> ELSE x.v

\* str(names) for a tuple of str: "('x', 'y')", "('x',)", "()"
RECURSIVE str_items(_)
str_items(ss) ==
    IF ss = <<>> THEN <<>>
    ELSE <<"'">> \o ss[1] \o <<"'">>
         \o (IF Len(ss) > 1 THEN <<",", " ">> ELSE <<>>) \o str_items(Tail(ss))

str_tuple(ss) ==
    <<"(">> \o str_items(ss) \o (IF Len(ss) = 1 THEN <<",">> ELSE <<>>) \o <<")">>

\* the reading of the argument that takes only a list as a sequence of
\* names, and a tuple by its display like any other value
names_of_spec_list_only(ngens, x) ==
    IF x.t = "list"
    THEN PyList([i \in 1..Len(x.v) |-> strip(str_of(x.v[i]))])
    ELSE LET s == IF x.t = "tuple" THEN str_tuple(x.v) ELSE str_arg(x)
             split ==
                 IF \E i \in 1..Len(s) : s[i] = ","
                 THEN LET parts == split_comma(s, <<>>)
                      IN PyList([i \in 1..Len(parts) |-> strip(parts[i])])
                 ELSE IF ngens > 1 /\ Len(s) = ngens
                          /\ certify_names(PyStr(s)).exc # "ValueError"
                 THEN PyTuple([i \in 1..Len(s) |-> <<s[i]>>])
                 ELSE PyStr(s)
         IN IF split.t = "str"
            THEN IF ngens < 0 THEN PyList(<<s>>) ELSE variable_names_default(ngens, s)
            ELSE split

\* lines 1036-1057: the sequence of names the argument stands for
names_of_spec(ngens, x) ==
    IF x.t \in {"tuple", "list"}
    THEN PyList([i \in 1..Len(x.v) |-> strip(str_of(x.v[i]))])
    ELSE LET s == str_arg(x)
             split ==
                 IF \E i \in 1..Len(s) : s[i] = ","
                 THEN LET parts == split_comma(s, <<>>)
                      IN PyList([i \in 1..Len(parts) |-> strip(parts[i])])
                 ELSE IF ngens > 1 /\ Len(s) = ngens
                          /\ certify_names(PyStr(s)).exc # "ValueError"
                 THEN PyTuple([i \in 1..Len(s) |-> <<s[i]>>])
                 ELSE PyStr(s)
         IN IF split.t = "str"
            THEN IF ngens < 0 THEN PyList(<<s>>) ELSE variable_names_default(ngens, s)
            ELSE split

\* normalize_names without the call of certify_names
normalize_names_uncertified(ngens, x) ==
    LET nms == names_of_spec(ngens, x)
    IN IF ngens >= 0 /\ Len(nms.v) # ngens
       THEN Raise("IndexError", "the number of names must equal the number of generators")
       ELSE Return(PyTuple(nms.v))

\* normalize_names without the comparison of the number of names with ngens
normalize_names_unsized(ngens, x) ==
    LET nms == names_of_spec(ngens, x)
        c == certify_names(nms)
    IN IF c.exc # "none" THEN c ELSE Return(PyTuple(nms.v))

normalize_names(ngens, x) ==
    LET nms == names_of_spec(ngens, x)
        c == certify_names(nms)
    IN IF c.exc # "none" THEN c
       ELSE IF ngens >= 0 /\ Len(nms.v) # ngens
       THEN Raise("IndexError", "the number of names must equal the number of generators")
       ELSE Return(PyTuple(nms.v))

----------------------------------------------------------------------------
(* The collaborators: the category lattice and the behaviour tables *)

\* A category is the set of the basic structures it combines; the category
\* of objects combines none and is the top of the lattice.
Atoms == {"Magmas", "EnumeratedSets"}
Cat(S) == [t |-> "cat", v |-> S]
Objects == Cat({})
Categories == {Cat(S) : S \in SUBSET Atoms}

\* every category, most specific first
SuperCategoryOrder ==
    <<Cat({"EnumeratedSets", "Magmas"}), Cat({"EnumeratedSets"}), Cat({"Magmas"}), Cat({})>>

\* Category.join(categories): the most specific common refinement
join(cs) == Cat(UNION {cs[i].v : i \in 1..Len(cs)})

\* Category.all_super_categories(): the category itself, then the
\* categories of fewer of its structures, most specific first, those that
\* keep the structure searched first before the others, down to the
\* category of objects
all_super_categories(c) ==
    SelectSeq(SuperCategoryOrder, LAMBDA d : d.v \subseteq c.v)

\* a is a sub-category of b (or equal to it)
is_subcategory(a, b) == b.v \subseteq a.v

\* The names the dynamic lookup is asked for, and the basic structures whose
\* ParentMethods define them, in the method resolution order of parent_class:
\* both structures define f, the second overriding the first; nothing
\* defines sadfasdf.
AttrNames == {"f", "sadfasdf"}
ParentMethods == [Magmas |-> {"f"}, EnumeratedSets |-> {"f"}]
MRO == <<"EnumeratedSets", "Magmas">>

Absent == [t |-> "absent", v |-> <<>>]
Method(atom, name) == [t |-> "method", v |-> <<atom, name>>]

\* the attribute `name` of cat.parent_class: the first definition in the
\* resolution order, or Absent
parent_class_attr(cat, name) ==
    LET defs == {i \in 1..Len(MRO) : MRO[i] \in cat.v /\ name \in ParentMethods[MRO[i]]}
    IN IF defs = {} THEN Absent
       ELSE Method(MRO[CHOOSE i \in defs : \A j \in defs : i <= j], name)

\* getattr_from_other_class(self, cls, name): the attribute bound to self,
\* or AttributeError; cls is `type` when the category is unset
getattr_from_other_class(cat, name) ==
    IF cat = None \/ parent_class_attr(cat, name) = Absent
    THEN Raise("AttributeError", "no attribute")
    ELSE Return(parent_class_attr(cat, name))

\* dir(cls) of a class, in sorted order: every class has __class__; the
\* class of the object has its methods base and category, and the
\* parent_class of a category has the methods of its structures
DirOrder == <<"__class__", "base", "category", "f">>
dir_class == <<"__class__", "base", "category">>
dir_parent_class(cat) ==
    SelectSeq(DirOrder, LAMBDA n : n = "__class__" \/ \E a \in cat.v : n \in ParentMethods[a])

\* dir_with_other_class(self, cls): the names of both directories, each
\* once, sorted
dir_with_other_class(own, other) ==
    SelectSeq(DirOrder, LAMBDA n : \/ \E i \in 1..Len(own) : own[i] = n
                                   \/ \E i \in 1..Len(other) : other[i] = n)

\* sage.misc.latex.latex_variable_name(x): a trailing _token or run of
\* digits becomes the subscript _{token}, recursively
RECURSIVE latex_variable_name(_)
latex_variable_name(x) ==
    LET us == {i \in 1..Len(x) : x[i] = "_"}
        nondig == {i \in 1..Len(x) : x[i] \notin Digits}
        cut == IF us # {} THEN CHOOSE i \in us : \A j \in us : i <= j
               ELSE IF nondig = {} THEN 0
               ELSE CHOOSE i \in nondig : \A j \in nondig : j <= i
        prefix == IF us # {} THEN SubSeq(x, 1, cut - 1) ELSE SubSeq(x, 1, cut)
        suffix == SubSeq(x, cut + 1, Len(x))
    IN IF suffix = <<>> THEN prefix
       ELSE prefix \o <<"_", "{">>
            \o (IF \A i \in 1..Len(suffix) : suffix[i] \in Digits
                THEN suffix ELSE latex_variable_name(suffix))
            \o <<"}">>

----------------------------------------------------------------------------
(* The CategoryObject.  A method takes the object's fields as the record   *)
(* self and yields [self |-> the fields afterwards, ret |-> the outcome].  *)

Self == [_category |-> _category, _base |-> _base, _names |-> _names,
         __dict__ |-> __dict__, __cached_methods |-> __cached_methods,
         _hash_value |-> _hash_value, __custom_name |-> __custom_name]

EmptyDict == [n \in AttrNames |-> Absent]

\* An instance of the extension class alone has no __dict__ (lines 717-720
\* and 761-764 provide for the AttributeError); an instance of a Python
\* subclass has one, empty when the instance is new.  _latex_names is no
\* cdef attribute: it is held in the __dict__, and may be absent (lines
\* 534-536 and 698-703).
NoDict == [t |-> "nodict", v |-> <<>>]
InstanceDicts == {NoDict, PyDict(<<>>)}

\* a new instance with the instance dict d, after __cinit__: the cdef
\* attributes _category, _base and _names start as None
__cinit__(d) == [_category |-> None, _base |-> None, _names |-> None,
                 __dict__ |-> d, __cached_methods |-> EmptyDict,
                 _hash_value |-> -1, __custom_name |-> None]

\* a new instance of the class of self
new(self) == __cinit__(IF self.__dict__.t = "dict" THEN PyDict(<<>>) ELSE NoDict)

\* self.<key> for an attribute that no cdef attribute holds: the entry of
\* the instance dict, or Absent for the AttributeError (the search of the
\* category that __getattr__ then makes finds no such name and stores
\* nothing)
dict_attr(self, key) ==
    IF self.__dict__.t = "dict" /\ key \in DOMAIN self.__dict__.v
    THEN self.__dict__.v[key] ELSE Absent

\* d[key] = val
setitem(d, key, val) == [k \in DOMAIN d \cup {key} |-> IF k = key THEN val ELSE d[k]]

\* self.<key> = val for such an attribute, on an instance with a __dict__
set_dict_attr(self, key, val) ==
    [self EXCEPT !.__dict__ = PyDict(setitem(self.__dict__.v, key, val))]

NoAttribute == Raise("AttributeError", "object has no attribute")

Done(self, r) == [self |-> self, ret |-> r]

\* guess_category(obj): is_field and is_ring are looked up like any other
\* missing attribute, and no behaviour table of the model defines them, so
\* both raise AttributeError, which is caught, and the guess is None
guess_category(obj) == None

_init_category_(self, c) ==
    LET c1 == IF c = None THEN guess_category(self) ELSE c
        c2 == IF c1.t \in {"list", "tuple"} THEN join(c1.v) ELSE c1
    IN Done([self EXCEPT !._category = c2], Return(None))

\* a refinement that joins only the given categories, dropping the current one
_refine_category_replacing(self, c) ==
    IF self._category = None THEN _init_category_(self, c)
    ELSE LET cl == IF c.t \in {"list", "tuple"} THEN c.v ELSE <<c>>
         IN Done([self EXCEPT !._category = join(cl)], Return(None))

\* a refinement that, on an unset category, stores the first category of
\* a list instead of the join of the list
_refine_category_first_of_list(self, c) ==
    IF self._category = None
    THEN IF c.t \in {"list", "tuple"}
         THEN Done([self EXCEPT !._category = c.v[1]], Return(None))
         ELSE _init_category_(self, c)
    ELSE LET cl == IF c.t \in {"list", "tuple"} THEN c.v ELSE <<c>>
         IN Done([self EXCEPT !._category = join(<<self._category>> \o cl)], Return(None))

_refine_category_(self, c) ==
    IF self._category = None THEN _init_category_(self, c)
    ELSE LET cl == IF c.t \in {"list", "tuple"} THEN c.v ELSE <<c>>
         IN Done([self EXCEPT !._category = join(<<self._category>> \o cl)], Return(None))

\* category() without the default for an unset category
category_without_default(self) == Done(self, Return(self._category))

category(self) ==
    LET s1 == IF self._category = None THEN [self EXCEPT !._category = Objects] ELSE self
    IN Done(s1, Return(s1._category))

\* categories(): the super-categories of category(), which stores the
\* default for an unset category
categories(self) ==
    LET c == category(self)
    IN Done(c.self, Return(PyList(all_super_categories(c.ret.val))))

base(self) == Done(self, Return(self._base))

\* variable_names() that returns the unset value instead of raising
variable_names_silent(self) == Done(self, Return(self._names))

variable_names(self) ==
    IF self._names # None THEN Done(self, Return(self._names))
    ELSE Done(self, Raise("ValueError", "variable names have not yet been set"))

\* variable_name(): variable_names()[0]
variable_name(self) ==
    LET vn == variable_names(self)
    IN IF vn.ret.exc # "none" THEN vn
       ELSE IF vn.ret.val.v = <<>>
       THEN Done(vn.self, Raise("IndexError", "tuple index out of range"))
       ELSE Done(vn.self, Return(PyStr(vn.ret.val.v[1])))

\* _assign_names without the comparison with the names already stored
_assign_names_unchecked(self, nms, normalize, ngens) ==
    IF nms = None THEN Done(self, Return(None))
    ELSE LET n == IF normalize THEN normalize_names(ngens, nms) ELSE Return(nms)
         IN IF n.exc # "none" THEN Done(self, n)
            ELSE IF n.val.t = "str"
            THEN Done([self EXCEPT !._names = PyTuple(<<n.val.v>>)], Return(None))
            ELSE IF n.val.t \in {"list", "tuple"}
            THEN Done([self EXCEPT !._names = PyTuple(n.val.v)], Return(None))
            ELSE Done(self, Raise("TypeError", "names must be a tuple of strings"))

\* _assign_names that rejects every assignment once names are stored
_assign_names_strict(self, nms, normalize, ngens) ==
    IF nms = None THEN Done(self, Return(None))
    ELSE LET n == IF normalize THEN normalize_names(ngens, nms) ELSE Return(nms)
         IN IF n.exc # "none" THEN Done(self, n)
            ELSE IF self._names # None
            THEN Done(self, Raise("ValueError", "variable names cannot be changed after object creation."))
            ELSE IF n.val.t = "str"
            THEN Done([self EXCEPT !._names = PyTuple(<<n.val.v>>)], Return(None))
            ELSE IF n.val.t \in {"list", "tuple"}
            THEN Done([self EXCEPT !._names = PyTuple(n.val.v)], Return(None))
            ELSE Done(self, Raise("TypeError", "names must be a tuple of strings"))

\* _assign_names that takes an empty tuple of names for no names at all
_assign_names_empty_unlocked(self, nms, normalize, ngens) ==
    IF nms = None THEN Done(self, Return(None))
    ELSE LET n == IF normalize THEN normalize_names(ngens, nms) ELSE Return(nms)
         IN IF n.exc # "none" THEN Done(self, n)
            ELSE IF self._names # None /\ self._names.v # <<>> /\ ~PyEq(n.val, self._names)
            THEN Done(self, Raise("ValueError", "variable names cannot be changed after object creation."))
            ELSE IF n.val.t = "str"
            THEN Done([self EXCEPT !._names = PyTuple(<<n.val.v>>)], Return(None))
            ELSE IF n.val.t \in {"list", "tuple"}
            THEN Done([self EXCEPT !._names = PyTuple(n.val.v)], Return(None))
            ELSE Done(self, Raise("TypeError", "names must be a tuple of strings"))

_assign_names(self, nms, normalize, ngens) ==
    IF nms = None THEN Done(self, Return(None))
    ELSE LET n == IF normalize THEN normalize_names(ngens, nms) ELSE Return(nms)
         IN IF n.exc # "none" THEN Done(self, n)
            ELSE IF self._names # None /\ ~PyEq(n.val, self._names)
            THEN Done(self, Raise("ValueError", "variable names cannot be changed after object creation."))
            ELSE IF n.val.t = "str"
            THEN Done([self EXCEPT !._names = PyTuple(<<n.val.v>>)], Return(None))
            ELSE IF n.val.t \in {"list", "tuple"}
            THEN Done([self EXCEPT !._names = PyTuple(n.val.v)], Return(None))
            ELSE Done(self, Raise("TypeError", "names must be a tuple of strings"))

\* latex_variable_names(): the stored list if the attribute is there and
\* not None; otherwise the list is computed and stored (line 705), which on
\* an instance without a __dict__ raises AttributeError
latex_variable_names(self) ==
    LET names == dict_attr(self, "_latex_names")
    IN IF names # Absent /\ names # None THEN Done(self, Return(names))
       ELSE LET vn == variable_names(self)
            IN IF vn.ret.exc # "none" THEN vn
               ELSE LET l == PyList([i \in 1..Len(vn.ret.val.v) |-> latex_variable_name(vn.ret.val.v[i])])
                    IN IF self.__dict__.t # "dict" THEN Done(self, NoAttribute)
                       ELSE Done(set_dict_attr(self, "_latex_names", l), Return(l))

\* latex_name(): latex_variable_names()[0], the list being computed and
\* stored before it is indexed
latex_name(self) ==
    LET ln == latex_variable_names(self)
    IN IF ln.ret.exc # "none" THEN ln
       ELSE IF ln.ret.val.v = <<>>
       THEN Done(ln.self, Raise("IndexError", "list index out of range"))
       ELSE Done(ln.self, Return(PyStr(ln.ret.val.v[1])))

Pair(a, b) == [t |-> "pair", v |-> <<a, b>>]

\* __temporarily_change_names(names, latex_names): the ValueError of
\* unset names is caught, the AttributeError of latex_variable_names() is
\* not; line 544 assigns _names and then _latex_names, which on an instance
\* without a __dict__ raises AttributeError after _names is assigned
__temporarily_change_names(self, nms, lnms) ==
    LET vn == variable_names(self)
        ln == latex_variable_names(self)
        old == IF vn.ret.exc = "ValueError" THEN Pair(None, None)
               ELSE Pair(vn.ret.val, ln.ret.val)
        s0 == IF vn.ret.exc = "ValueError" THEN self ELSE ln.self
        s1 == [s0 EXCEPT !._names = nms]
    IN IF vn.ret.exc # "ValueError" /\ ln.ret.exc # "none" THEN ln
       ELSE IF s1.__dict__.t # "dict" THEN Done(s1, NoAttribute)
       ELSE Done(set_dict_attr(s1, "_latex_names", lnms), Return(old))

\* self.__dict__.copy(), or {} for the AttributeError (lines 717-720)
dict_copy(self) == IF self.__dict__.t = "dict" THEN self.__dict__.v ELSE <<>>

\* __getstate__ that leaves the record untagged, as the legacy format was
__getstate___untagged(self) ==
    LET d1 == setitem(dict_copy(self), "_category", self._category)
        d2 == setitem(d1, "_base", self._base)
        d3 == setitem(d2, "_names", self._names)
    IN Done(self, Return(PyDict([k \in DOMAIN d3 \ {"_pickle_version"} |-> d3[k]])))

\* __getstate__: the copy of the instance dict with the three cdef
\* attributes and the version written over it
__getstate__(self) ==
    LET d1 == setitem(dict_copy(self), "_category", self._category)
        d2 == setitem(d1, "_base", self._base)
        d3 == setitem(d2, "_names", self._names)
    IN Done(self, Return(PyDict(setitem(d3, "_pickle_version", 1))))

\* The entries of a dict that, once it is the instance dict, nothing reads:
\* _category, _base and _names are cdef attributes, which the methods read
\* in place of the entries of these names, no method reads
\* self._pickle_version, and __getstate__ writes the four over the copy it
\* takes (lines 721-729).  The instance dict is kept without them.
WrittenOver == {"_category", "_base", "_names", "_pickle_version"}
attributes(d) == [k \in DOMAIN d \ WrittenOver |-> d[k]]

\* __setstate__ without line 762: the instance dict stays as it is
set_dict_keeping(self, d) == self

\* lines 761-764: self.__dict__ = d, the AttributeError of an instance
\* without a __dict__ passed over
set_dict(self, d) ==
    IF self.__dict__.t = "dict" THEN [self EXCEPT !.__dict__ = PyDict(attributes(d))] ELSE self

\* the version tag of a record; a record without one is version 0
version_of(d) == IF "_pickle_version" \in DOMAIN d THEN d._pickle_version ELSE 0

\* __setstate__ that takes the record's category in place of the stored one
__setstate___overwriting(self, d) ==
    LET version == version_of(d)
        KeyError(s) == Done(s, Raise("KeyError", "missing key"))
    IN IF version = 1
       THEN IF "_category" \notin DOMAIN d THEN KeyError(self)
            ELSE LET s1 == IF d._category = None THEN self
                           ELSE [self EXCEPT !._category = d._category]
                 IN IF "_base" \notin DOMAIN d THEN KeyError(s1)
                    ELSE LET s2 == [s1 EXCEPT !._base = d._base]
                         IN IF "_names" \notin DOMAIN d THEN KeyError(s2)
                            ELSE Done(set_dict([s2 EXCEPT !._names = d._names], d), Return(None))
       ELSE IF version = 0
       THEN IF "_base" \notin DOMAIN d THEN Done(set_dict(self, d), Return(None))
            ELSE LET s1 == [self EXCEPT !._base = d._base]
                 IN IF "_names" \notin DOMAIN d THEN Done(set_dict(s1, d), Return(None))
                    ELSE Done(set_dict([s1 EXCEPT !._names = d._names], d), Return(None))
       ELSE Done(set_dict(self, d), Return(None))

\* __setstate__ that restores the category of a legacy record as well
__setstate___legacy_category(self, d) ==
    LET version == version_of(d)
        KeyError(s) == Done(s, Raise("KeyError", "missing key"))
    IN IF version = 1
       THEN IF "_category" \notin DOMAIN d THEN KeyError(self)
            ELSE LET s1 == IF d._category = None THEN self
                           ELSE IF self._category = None
                           THEN [self EXCEPT !._category = d._category]
                           ELSE [self EXCEPT !._category = join(<<self._category, d._category>>)]
                 IN IF "_base" \notin DOMAIN d THEN KeyError(s1)
                    ELSE LET s2 == [s1 EXCEPT !._base = d._base]
                         IN IF "_names" \notin DOMAIN d THEN KeyError(s2)
                            ELSE Done(set_dict([s2 EXCEPT !._names = d._names], d), Return(None))
       ELSE IF version = 0
       THEN IF "_base" \notin DOMAIN d THEN Done(set_dict(self, d), Return(None))
            ELSE LET s1 == [self EXCEPT !._base = d._base]
                 IN IF "_names" \notin DOMAIN d THEN Done(set_dict(s1, d), Return(None))
                    ELSE LET s2 == [s1 EXCEPT !._names = d._names]
                         IN IF "_category" \in DOMAIN d
                            THEN Done(set_dict([s2 EXCEPT !._category = d._category], d), Return(None))
                            ELSE Done(set_dict(s2, d), Return(None))
       ELSE Done(set_dict(self, d), Return(None))

\* __setstate__(d), d a dict; a missing key raises KeyError where it is
\* read, and a call that does not raise ends with self.__dict__ = d
__setstate__(self, d) ==
    LET version == version_of(d)
        KeyError(s) == Done(s, Raise("KeyError", "missing key"))
    IN IF version = 1
       THEN IF "_category" \notin DOMAIN d THEN KeyError(self)
            ELSE LET s1 == IF d._category = None THEN self
                           ELSE IF self._category = None
                           THEN [self EXCEPT !._category = d._category]
                           ELSE [self EXCEPT !._category = join(<<self._category, d._category>>)]
                 IN IF "_base" \notin DOMAIN d THEN KeyError(s1)
                    ELSE LET s2 == [s1 EXCEPT !._base = d._base]
                         IN IF "_names" \notin DOMAIN d THEN KeyError(s2)
                            ELSE Done(set_dict([s2 EXCEPT !._names = d._names], d), Return(None))
       ELSE IF version = 0
       THEN IF "_base" \notin DOMAIN d THEN Done(set_dict(self, d), Return(None))
            ELSE LET s1 == [self EXCEPT !._base = d._base]
                 IN IF "_names" \notin DOMAIN d THEN Done(set_dict(s1, d), Return(None))
                    ELSE Done(set_dict([s1 EXCEPT !._names = d._names], d), Return(None))
       ELSE Done(set_dict(self, d), Return(None))

\* getattr_from_category that answers a failed search with a default value
getattr_from_category_defaulting(self, name) ==
    IF self.__cached_methods[name] # Absent
    THEN [self |-> self, ret |-> Return(self.__cached_methods[name]), searched |-> FALSE]
    ELSE LET attr == getattr_from_other_class(self._category, name)
         IN IF attr.exc # "none"
            THEN [self |-> self, ret |-> Return(None), searched |-> TRUE]
            ELSE [self |-> [self EXCEPT !.__cached_methods[name] = attr.val],
                  ret |-> attr, searched |-> TRUE]

\* getattr_from_category that remembers a failed search in the cache
getattr_from_category_caching_failure(self, name) ==
    IF self.__cached_methods[name] # Absent
    THEN [self |-> self, ret |-> Return(self.__cached_methods[name]), searched |-> FALSE]
    ELSE LET attr == getattr_from_other_class(self._category, name)
         IN [self |-> [self EXCEPT !.__cached_methods[name] = attr.val],
             ret |-> attr, searched |-> TRUE]

\* getattr_from_category that returns the binding without storing it
getattr_from_category_unstored(self, name) ==
    IF self.__cached_methods[name] # Absent
    THEN [self |-> self, ret |-> Return(self.__cached_methods[name]), searched |-> FALSE]
    ELSE [self |-> self, ret |-> getattr_from_other_class(self._category, name),
          searched |-> TRUE]

\* getattr_from_category(name), reached through __getattr__; `searched`
\* tells whether getattr_from_other_class was called
getattr_from_category(self, name) ==
    IF self.__cached_methods[name] # Absent
    THEN [self |-> self, ret |-> Return(self.__cached_methods[name]), searched |-> FALSE]
    ELSE LET attr == getattr_from_other_class(self._category, name)
         IN IF attr.exc # "none"
            THEN [self |-> self, ret |-> attr, searched |-> TRUE]
            ELSE [self |-> [self EXCEPT !.__cached_methods[name] = attr.val],
                  ret |-> attr, searched |-> TRUE]

\* __dir__(): the category is read through category()
__dir__(self) ==
    LET c == category(self)
    IN Done(c.self, Return(PyList(dir_with_other_class(dir_class, dir_parent_class(c.ret.val)))))

\* getattr_from_category in its steps, as callers that interleave run it.

\* line 870 without its effect: the binding is returned and not stored
resolve_store_skipped(self, name, attr) == self

\* lines 859-860: the cached binding, or Absent for the KeyError
resolve_try(self, name) == self.__cached_methods[name]

\* lines 862-869: the search of the behaviour table of the category as it
\* is when the step runs
resolve_lookup(self, name) == getattr_from_other_class(self._category, name)

\* line 870: self.__cached_methods[name] = attr
resolve_store(self, name, attr) == [self EXCEPT !.__cached_methods[name] = attr]

\* _refine_category_ in its steps, as callers that interleave run it.

\* lines 225-230 up to the call of join: the categories to be joined, read
\* from the object and the argument; on an unset category what
\* _init_category_ joins (lines 187-188), a single category standing alone
refine_read(self, c) ==
    LET cl == IF c.t \in {"list", "tuple"} THEN c.v ELSE <<c>>
    IN IF self._category = None THEN cl ELSE <<self._category>> \o cl

\* a single category on an unset category is stored with no call of join
refine_joins(self, c) == self._category # None \/ c.t \in {"list", "tuple"}

\* lines 230 and 188-189, from the return of join: the join of the
\* categories read is stored, whatever the category has become
refine_write(self, held) == [self EXCEPT !._category = join(held)]

\* ord(c) for the characters of the names and display forms
ord(c) ==
    CASE c \in Digits -> 47 + (CHOOSE i \in 1..10 : DigitSeq[i] = c)
      [] c = " " -> 32   [] c = "," -> 44   [] c = "_" -> 95
      [] c = "E" -> 69   [] c = "M" -> 77   [] c = "N" -> 78   [] c = "O" -> 79
      [] c = "a" -> 97   [] c = "b" -> 98   [] c = "e" -> 101  [] c = "n" -> 110
      [] c = "o" -> 111  [] c = "t" -> 116  [] c = "x" -> 120  [] c = "y" -> 121

\* hash(s) of a str: a fixed function of its characters, here a polynomial
\* in 16-bit two's complement; hash() never returns -1, which the
\* interpreter reserves for errors and replaces by -2
RECURSIVE hash_from(_, _)
hash_from(s, h) ==
    IF s = <<>> THEN h ELSE hash_from(Tail(s), (h * 31 + ord(s[1])) % (2 ^ 16))

hash(s) ==
    LET u == hash_from(s, 0)
        h == IF u >= 2 ^ 15 THEN u - 2 ^ 16 ELSE u
    IN IF h = -1 THEN -2 ELSE h

\* ''.join(ss)
RECURSIVE concat(_)
concat(ss) == IF ss = <<>> THEN <<>> ELSE ss[1] \o concat(Tail(ss))

\* repr(self): the custom name once rename() gave one, else the display of
\* the object, which shows its names and the structures of its category
repr(self) ==
    IF self.__custom_name # None THEN self.__custom_name.v
    ELSE <<"O">>
         \o (IF self._names = None THEN <<>> ELSE concat(self._names.v))
         \o (IF self._category # None /\ "Magmas" \in self._category.v THEN <<"M">> ELSE <<>>)
         \o (IF self._category # None /\ "EnumeratedSets" \in self._category.v
             THEN <<"E">> ELSE <<>>)

\* rename(x): gives the object a custom name, rename(None) takes it away
rename(self, x) == Done([self EXCEPT !.__custom_name = x], Return(None))

\* __hash__ that hashes the display form on every call
__hash___uncached(self) ==
    [self |-> [self EXCEPT !._hash_value = hash(repr(self))],
     ret |-> Return(PyInt(hash(repr(self)))), computed |-> TRUE]

\* __hash__(); `computed` tells whether repr(self) was hashed
__hash__(self) ==
    IF self._hash_value = -1
    THEN [self |-> [self EXCEPT !._hash_value = hash(repr(self))],
          ret |-> Return(PyInt(hash(repr(self)))), computed |-> TRUE]
    ELSE [self |-> self, ret |-> Return(PyInt(self._hash_value)), computed |-> FALSE]

\* A generator of the object o, displayed by its name.
Gen(o, name) == [t |-> "gen", v |-> <<o, name>>]
str_gen(x) == x.v[2]

\* _defining_names() of the object o of the heap h: by default its gens()
_defining_names(h, o) == [i \in 1..Len(h[o].gens) |-> Gen(o, h[o].gens[i])]

\* gens_dict(): v[str(x)] = x for x in _defining_names(), a later generator
\* replacing an earlier one of the same name
gens_dict(h, o) ==
    LET g == _defining_names(h, o)
    IN [k \in {str_gen(g[i]) : i \in 1..Len(g)} |->
           g[CHOOSE i \in 1..Len(g) :
                 str_gen(g[i]) = k /\ \A j \in 1..Len(g) : str_gen(g[j]) = k => j <= i]]

\* dict.update: the entries of a and of b, with b's value for a key of both
update(a, b) == [k \in DOMAIN a \cup DOMAIN b |-> IF k \in DOMAIN b THEN b[k] ELSE a[k]]

\* base_ring()
base_ring(h, o) == h[o]._base

\* the end of gens_dict_recursive() that keeps the base's entry for a key
\* of both
gens_dict_recursive_return_base_first(h, o, GDR) == update(gens_dict(h, o), GDR)

\* lines 331-332 of gens_dict_recursive(), GDR being what the base returned
gens_dict_recursive_return(h, o, GDR) == update(GDR, gens_dict(h, o))

----------------------------------------------------------------------------
(* Bounds and the arguments the calls are made with *)

MaxNgens == 2
MaxLookups == 2

QQ == PyObj(<<"Q", "Q">>)
Bases == {None, QQ}

Magmas == Cat({"Magmas"})
EnumeratedSets == Cat({"EnumeratedSets"})

\* a category or a list of categories
CategoryArgs == {Magmas, EnumeratedSets, PyList(<<Magmas, EnumeratedSets>>)}

\* name specifications: 'x', 'x,y', ['x', 'y']
NameSpecs == {PyStr(<<"x">>), PyStr(<<"x", ",", "y">>), PyList(<<<<"x">>, <<"y">>>>)}

\* ngens: -1 stands for an unknown number (ngens=None)
NgensArgs == (-1)..MaxNgens

\* persisted records: every version tag (none, 0, 1, an unknown one) over a
\* few values of the fields, records that lack a field, and a legacy
\* record that carries _latex_names
FullRecords == [_category : {None, EnumeratedSets}, _base : {QQ},
                _names : {None, PyTuple(<<<<"y">>>>)}]
Tagged(r, v) == [k \in DOMAIN r \cup {"_pickle_version"} |->
                    IF k = "_pickle_version" THEN v ELSE r[k]]
Without(r, key) == [k \in DOMAIN r \ {key} |-> r[k]]
StateRecords ==
    FullRecords
    \cup {Tagged(r, v) : r \in FullRecords, v \in {1, 2}}
    \cup {Without(Tagged(r, 1), key) :
            r \in {[_category |-> EnumeratedSets, _base |-> QQ, _names |-> PyTuple(<<<<"y">>>>)]},
            key \in {"_category", "_base", "_names"}}
    \cup {Without(r, key) :
            r \in {[_category |-> EnumeratedSets, _base |-> QQ, _names |-> PyTuple(<<<<"y">>>>)]},
            key \in {"_base", "_names"}}
    \cup {[_base |-> QQ, _names |-> PyTuple(<<<<"y">>>>), _latex_names |-> PyList(<<<<"y">>>>)]}

\* arguments of the module functions: every str of up to MaxStrLen
\* characters over a letter, a second letter, a digit, the underscore, the
\* comma, the blank and a character that is none of these
MaxStrLen == 3
MaxNames == 2
Alphabet == {"x", "y", "1", "_", ",", " ", "'"}
Strs == UNION {[1..k -> Alphabet] : k \in 0..MaxStrLen}

\* elements of a list of names: '', 'x', 'y', ' x', 'x ', 'x1', '1x', '_x',
\* 'x_', '_', "x'" and the number 3/2, which is no str
ListNames ==
    {<<>>, <<"x">>, <<"y">>, <<" ", "x">>, <<"x", " ">>, <<"x", "1">>, <<"1", "x">>,
     <<"_", "x">>, <<"x", "_">>, <<"_">>, <<"x", "'">>, <<"#", "3", "/", "2">>}
Lists == UNION {[1..k -> ListNames] : k \in 0..MaxNames}

\* names of normalize_names: a str, None, or a list or tuple
NormalizeInputs ==
    {PyStr(s) : s \in Strs} \cup {None} \cup {PyList(l) : l \in Lists}
    \cup {PyTuple(l) : l \in Lists}

\* names of certify_names: a list, or a str, iterated by character
CertifyInputs == {PyList(l) : l \in Lists} \cup {PyStr(s) : s \in Strs}

\* towers of bases: three objects, as in the doctest QQ['x,y']['z,w'];
\* the base of each is one of them, itself included, or None, and each has
\* no generator, the generator x, or the generators x and y
RecursionLimit == 4
ObjectIds == {"R", "S", "Q"}
GensChoices == {<<>>, <<<<"x">>>>, <<<<"x">>, <<"y">>>>}
Heaps == [ObjectIds -> [_base : ObjectIds \cup {"None"}, gens : GensChoices]]

----------------------------------------------------------------------------
(* The state machine: one action per call on the object *)

\* the effect of a call: the fields and the outcome it leaves
Effect(o, r) ==
    /\ pre' = Self
    /\ op' = o
    /\ ret' = r.ret
    /\ _category' = r.self._category
    /\ _base' = r.self._base
    /\ _names' = r.self._names
    /\ __dict__' = r.self.__dict__
    /\ __cached_methods' = r.self.__cached_methods
    /\ _hash_value' = r.self._hash_value
    /\ __custom_name' = r.self.__custom_name
    /\ UNCHANGED <<heap, frames, calls>>

\* CategoryObject(category, base): __cinit__, then __init__
__init__(self, c, b) ==
    LET s1 == IF b # None THEN [self EXCEPT !._base = b] ELSE self
    IN IF c # None THEN _init_category_(s1, c) ELSE Done(s1, Return(None))

Init ==
    \E c \in CategoryArgs \cup {None}, b \in Bases, d \in InstanceDicts :
        LET r == __init__(__cinit__(d), c, b) IN
        /\ pre = __cinit__(d)
        /\ op = [name |-> "__init__", c |-> c, b |-> b]
        /\ ret = r.ret
        /\ _category = r.self._category
        /\ _base = r.self._base
        /\ _names = r.self._names
        /\ __dict__ = r.self.__dict__
        /\ __cached_methods = r.self.__cached_methods
        /\ _hash_value = r.self._hash_value
        /\ __custom_name = r.self.__custom_name
        /\ heap = <<>>
        /\ frames = <<>>
        /\ calls = <<>>
        /\ lookups = [n \in AttrNames |-> 0]

InitCategory ==
    \E c \in CategoryArgs \cup {None} :
        /\ Effect([name |-> "_init_category_", c |-> c], _init_category_(Self, c))
        /\ UNCHANGED lookups

RefineCategory ==
    \E c \in CategoryArgs \cup (IF _category = None THEN {None} ELSE {}) :
        /\ Effect([name |-> "_refine_category_", c |-> c], _refine_category_(Self, c))
        /\ UNCHANGED lookups

GetCategory ==
    /\ Effect([name |-> "category"], category(Self))
    /\ UNCHANGED lookups

GetCategories ==
    /\ Effect([name |-> "categories"], categories(Self))
    /\ UNCHANGED lookups

GetBase ==
    /\ Effect([name |-> "base"], base(Self))
    /\ UNCHANGED lookups

VariableNames ==
    /\ Effect([name |-> "variable_names"], variable_names(Self))
    /\ UNCHANGED lookups

VariableName ==
    /\ Effect([name |-> "variable_name"], variable_name(Self))
    /\ UNCHANGED lookups

\* _assign_names(names, normalize, ngens).  ngens is read only when
\* normalize is true and names=None returns at once, so those calls are made
\* with the default ngens alone; 'x,y' is passed with normalize=True only.
AssignNames ==
    \E nms \in NameSpecs \cup {None}, normalize \in BOOLEAN, ngens \in NgensArgs :
        /\ (~normalize \/ nms = None) => ngens = -1
        /\ nms = None => normalize
        /\ ~normalize => nms # PyStr(<<"x", ",", "y">>)
        /\ Effect([name |-> "_assign_names", names |-> nms, normalize |-> normalize,
                   ngens |-> ngens],
                  _assign_names(Self, nms, normalize, ngens))
        /\ UNCHANGED lookups

LatexVariableNames ==
    /\ Effect([name |-> "latex_variable_names"], latex_variable_names(Self))
    /\ UNCHANGED lookups

LatexName ==
    /\ Effect([name |-> "latex_name"], latex_name(Self))
    /\ UNCHANGED lookups

\* __temporarily_change_names(names, latex_names) as the context manager
\* of local variable names calls it: with no names, with names and no
\* LaTeX names, with names and their LaTeX forms, and with names and
\* LaTeX names of the caller's choice
TemporarilyChangeNames ==
    \E a \in {<<None, None>>, <<PyTuple(<<<<"y">>>>), None>>,
              <<PyTuple(<<<<"y">>>>), PyList(<<<<"y">>>>)>>,
              <<PyTuple(<<<<"y">>>>), PyList(<<<<"a">>>>)>>} :
        LET nms == a[1]
            lnms == a[2] IN
        /\ Effect([name |-> "__temporarily_change_names", names |-> nms, latex_names |-> lnms],
                  __temporarily_change_names(Self, nms, lnms))
        /\ UNCHANGED lookups

GetState ==
    /\ Effect([name |-> "__getstate__"], __getstate__(Self))
    /\ UNCHANGED lookups

\* __setstate__ with a record from elsewhere or with the one __getstate__
\* gives for the object as it is
SetState ==
    \E d \in StateRecords \cup {__getstate__(Self).ret.val.v} :
        /\ Effect([name |-> "__setstate__", d |-> d], __setstate__(Self, d))
        /\ UNCHANGED lookups

\* loads(dumps(obj)): a new instance restored from the object's record
\* takes the object's place
Loads ==
    /\ Effect([name |-> "loads", d |-> __getstate__(Self).ret.val.v],
              __setstate__(new(Self), __getstate__(Self).ret.val.v))
    /\ lookups' = [n \in AttrNames |-> 0]

GetAttr ==
    \E n \in AttrNames :
        LET r == getattr_from_category(Self, n)
            derived == r.searched /\ r.ret.exc = "none"
        IN /\ derived => lookups[n] < MaxLookups
           /\ Effect([name |-> "__getattr__", attr |-> n, searched |-> r.searched], r)
           /\ lookups' = IF derived THEN [lookups EXCEPT ![n] = @ + 1] ELSE lookups

Dir ==
    /\ Effect([name |-> "__dir__"], __dir__(Self))
    /\ UNCHANGED lookups

Next ==
    \/ InitCategory
    \/ RefineCategory
    \/ GetCategory
    \/ GetCategories
    \/ GetBase
    \/ VariableNames
    \/ VariableName
    \/ AssignNames
    \/ LatexVariableNames
    \/ LatexName
    \/ TemporarilyChangeNames
    \/ GetState
    \/ SetState
    \/ Loads
    \/ GetAttr
    \/ Dir

Spec == Init /\ [][Next]_vars

----------------------------------------------------------------------------
(* The hash of the object.  No other method reads _hash_value or the       *)
(* custom name, so the calls that compute the hash and that change the     *)
(* display form are explored on their own, next to restoring and loading.  *)

\* the names rename() is called with: 'toto', or None to drop the name
RenameArgs == {PyStr(<<"t", "o", "t", "o">>), None}

Hash ==
    LET r == __hash__(Self) IN
    /\ Effect([name |-> "__hash__", computed |-> r.computed], r)
    /\ UNCHANGED lookups

Rename ==
    \E x \in RenameArgs :
        /\ Effect([name |-> "rename", x |-> x], rename(Self, x))
        /\ UNCHANGED lookups

NextHash ==
    \/ Hash
    \/ Rename
    \/ AssignNames
    \/ RefineCategory
    \/ SetState
    \/ Loads

SpecHash == Init /\ [][NextHash]_vars

----------------------------------------------------------------------------
(* The module functions normalize_names and certify_names, called on their *)
(* own: they read no object, so the fields stay as __cinit__ leaves them.  *)
(* The arguments are drawn first and the call is then made with them.      *)

Call(o, r) ==
    /\ op' = o
    /\ ret' = r
    /\ UNCHANGED <<_category, _base, _names, __dict__, __cached_methods,
                   _hash_value, __custom_name, heap, frames, calls, lookups, pre>>

InitNames ==
    \E ngens \in NgensArgs, x \in NormalizeInputs :
        /\ _category = __cinit__(NoDict)._category
        /\ _base = __cinit__(NoDict)._base
        /\ _names = __cinit__(NoDict)._names
        /\ __dict__ = __cinit__(NoDict).__dict__
        /\ __cached_methods = __cinit__(NoDict).__cached_methods
        /\ _hash_value = __cinit__(NoDict)._hash_value
        /\ __custom_name = __cinit__(NoDict).__custom_name
        /\ heap = <<>>
        /\ frames = <<>>
        /\ calls = <<>>
        /\ lookups = [n \in AttrNames |-> 0]
        /\ pre = __cinit__(NoDict)
        /\ op = [name |-> "arguments", ngens |-> ngens, names |-> x]
        /\ ret = Return(None)

NormalizeNames ==
    /\ op.name = "arguments"
    /\ Call([name |-> "normalize_names", ngens |-> op.ngens, names |-> op.names,
              again |-> FALSE],
            normalize_names(op.ngens, op.names))

\* normalize_names(ngens, t) for the tuple t that normalize_names(ngens, x)
\* has just returned
NormalizeAgain ==
    /\ op.name = "normalize_names"
    /\ ~op.again
    /\ ret.exc = "none"
    /\ Call([name |-> "normalize_names", ngens |-> op.ngens, names |-> ret.val,
              again |-> TRUE],
            normalize_names(op.ngens, ret.val))

CertifyNames ==
    /\ op.name = "arguments"
    /\ op.names \in CertifyInputs
    /\ Call([name |-> "certify_names", names |-> op.names], certify_names(op.names))

NextNames ==
    \/ NormalizeNames
    \/ NormalizeAgain
    \/ CertifyNames

SpecNames == InitNames /\ [][NextNames]_vars

----------------------------------------------------------------------------
(* gens_dict_recursive() on an object of a tower of bases.  Each call of   *)
(* the recursion is a frame; a step runs the innermost frame up to its     *)
(* call of the base or up to its return.                                   *)

InitGens ==
    \E h \in Heaps, o \in ObjectIds :
        /\ _category = __cinit__(NoDict)._category
        /\ _base = __cinit__(NoDict)._base
        /\ _names = __cinit__(NoDict)._names
        /\ __dict__ = __cinit__(NoDict).__dict__
        /\ __cached_methods = __cinit__(NoDict).__cached_methods
        /\ _hash_value = __cinit__(NoDict)._hash_value
        /\ __custom_name = __cinit__(NoDict).__custom_name
        /\ lookups = [n \in AttrNames |-> 0]
        /\ pre = __cinit__(NoDict)
        /\ heap = h
        /\ frames = <<o>>
        /\ calls = <<>>
        /\ op = [name |-> "gens_dict_recursive", obj |-> o, step |-> "call"]
        /\ ret = Return(None)

\* what a frame that has finished hands to its caller, or to the caller of
\* the outermost call
Finish(callers, r) ==
    /\ frames' = callers
    /\ ret' = r
    /\ op' = [op EXCEPT !.step = IF callers = <<>> THEN "done" ELSE "return"]
    /\ UNCHANGED <<_category, _base, _names, __dict__, __cached_methods,
                   _hash_value, __custom_name, heap, calls, lookups, pre>>

\* lines 327-330: B = self.base_ring(); return {} if B is self, else call
\* B.gens_dict_recursive().  None has no such method, and the interpreter
\* stops a recursion deeper than its limit; both exceptions pass through
\* every frame.
GensCall ==
    /\ op.name = "gens_dict_recursive"
    /\ op.step = "call"
    /\ LET self == frames[Len(frames)]
           B == base_ring(heap, self)
       IN IF B = self THEN Finish(SubSeq(frames, 1, Len(frames) - 1), Return(PyDict(<<>>)))
          ELSE IF B = "None" THEN Finish(<<>>, Raise("AttributeError", "no attribute"))
          ELSE IF Len(frames) >= RecursionLimit
          THEN Finish(<<>>, Raise("RecursionError", "maximum recursion depth exceeded"))
          ELSE /\ frames' = Append(frames, B)
               /\ UNCHANGED <<_category, _base, _names, __dict__, __cached_methods,
                              _hash_value, __custom_name, heap, calls, lookups, pre, op,
                              ret>>

\* lines 331-332: GDR.update(self.gens_dict()); return GDR
GensReturn ==
    /\ op.name = "gens_dict_recursive"
    /\ op.step = "return"
    /\ LET self == frames[Len(frames)]
       IN Finish(SubSeq(frames, 1, Len(frames) - 1),
                 Return(PyDict(gens_dict_recursive_return(heap, self, ret.val.v))))

NextGens ==
    \/ GensCall
    \/ GensReturn

\* a call that has started runs on until it returns or raises
SpecGens == InitGens /\ [][NextGens]_vars /\ WF_vars(NextGens)

----------------------------------------------------------------------------
(* Two callers in getattr_from_category() of the same object, their steps  *)
(* interleaved with each other and with the steps of two callers of        *)
(* _refine_category_.                                                      *)

Threads == {"t1", "t2"}
Refiners == {"r1", "r2"}

Idle == [pc |-> "idle", name |-> "", attr |-> Absent, ret |-> Return(None),
         missed |-> FALSE, disturbed |-> FALSE, raced |-> FALSE]

\* a caller of _refine_category_ before its call: its argument and the
\* categories it has read
RefineIdle == [pc |-> "idle", c |-> None, held |-> <<>>]

\* the steps read and write the category and the attribute cache alone, so
\* the object is taken without an instance dict
InitResolve ==
    \E c \in CategoryArgs \cup {None}, b \in Bases :
        LET r == __init__(__cinit__(NoDict), c, b) IN
        /\ pre = __cinit__(NoDict)
        /\ op = [name |-> "resolve", refined |-> FALSE]
        /\ ret = r.ret
        /\ _category = r.self._category
        /\ _base = r.self._base
        /\ _names = r.self._names
        /\ __dict__ = r.self.__dict__
        /\ __cached_methods = r.self.__cached_methods
        /\ _hash_value = r.self._hash_value
        /\ __custom_name = r.self.__custom_name
        /\ heap = <<>>
        /\ frames = <<>>
        /\ calls = [t \in Threads \cup Refiners |-> IF t \in Threads THEN Idle ELSE RefineIdle]
        /\ lookups = [n \in AttrNames |-> 0]

\* a step of a caller that leaves the object as it is
Local(t, c) ==
    /\ calls' = [calls EXCEPT ![t] = c]
    /\ UNCHANGED <<_category, _base, _names, __dict__, __cached_methods, _hash_value,
                   __custom_name, heap, frames, lookups, pre, op, ret>>

\* obj.name is evaluated and reaches getattr_from_category(name)
ResolveStart ==
    \E t \in Threads, n \in AttrNames :
        /\ calls[t].pc = "idle"
        /\ Local(t, [calls[t] EXCEPT !.pc = "try", !.name = n])

\* lines 859-861: return the cached binding, or go on after the KeyError
ResolveTry ==
    \E t \in Threads :
        /\ calls[t].pc = "try"
        /\ LET cached == resolve_try(Self, calls[t].name)
           IN IF cached # Absent
              THEN Local(t, [calls[t] EXCEPT !.pc = "done", !.ret = Return(cached)])
              ELSE Local(t, [calls[t] EXCEPT !.pc = "lookup", !.missed = TRUE])

\* lines 862-869: attr = getattr_from_other_class(self, cls, name), whose
\* AttributeError ends the call
ResolveLookup ==
    \E t \in Threads :
        /\ calls[t].pc = "lookup"
        /\ LET attr == resolve_lookup(Self, calls[t].name)
           IN IF attr.exc # "none"
              THEN Local(t, [calls[t] EXCEPT !.pc = "done", !.ret = attr])
              ELSE Local(t, [calls[t] EXCEPT !.pc = "store", !.attr = attr.val])

\* lines 870-871: store attr in the cache and return it
ResolveStore ==
    \E t \in Threads :
        /\ calls[t].pc = "store"
        /\ __cached_methods' =
               resolve_store(Self, calls[t].name, calls[t].attr).__cached_methods
        /\ calls' = [calls EXCEPT ![t] = [calls[t] EXCEPT !.pc = "done",
                                                       !.ret = Return(calls[t].attr)]]
        /\ UNCHANGED <<_category, _base, _names, __dict__, _hash_value, __custom_name,
                       heap, frames, lookups, pre, op, ret>>

\* the callers of getattr_from_category after a write of the category: a
\* call that has started is disturbed, and one that has looked up and not
\* yet stored is raced
Disturbed(t) ==
    [calls[t] EXCEPT !.disturbed = @ \/ calls[t].pc \in {"try", "lookup", "store"},
                     !.raced = @ \/ calls[t].pc = "store"]

\* a write of the category by the caller r, who goes on as rc
RefineStore(r, rc, self) ==
    /\ _category' = self._category
    /\ op' = [op EXCEPT !.refined = TRUE]
    /\ calls' = [t \in Threads \cup Refiners |->
                   IF t \in Threads THEN Disturbed(t) ELSE IF t = r THEN rc ELSE calls[t]]
    /\ UNCHANGED <<_base, _names, __dict__, __cached_methods, _hash_value,
                   __custom_name, heap, frames, lookups, pre, ret>>

\* obj._refine_category_(c) is called, also by a caller whose earlier call
\* has returned
ResolveRefineStart ==
    \E r \in Refiners, c \in CategoryArgs :
        /\ calls[r].pc \in {"idle", "done"}
        /\ Local(r, [pc |-> "read", c |-> c, held |-> <<>>])

\* lines 225-230 up to the call of join: the category is read; a single
\* category on an unset category is stored at once (line 189)
ResolveRefineRead ==
    \E r \in Refiners :
        /\ calls[r].pc = "read"
        /\ IF refine_joins(Self, calls[r].c)
           THEN Local(r, [calls[r] EXCEPT !.pc = "join", !.held = refine_read(Self, calls[r].c)])
           ELSE RefineStore(r, [calls[r] EXCEPT !.pc = "done"],
                            _refine_category_(Self, calls[r].c).self)

\* join has returned: the join of what was read is stored (line 230, or
\* lines 188-189), and the call returns
ResolveRefineWrite ==
    \E r \in Refiners :
        /\ calls[r].pc = "join"
        /\ RefineStore(r, [calls[r] EXCEPT !.pc = "done", !.held = <<>>],
                       refine_write(Self, calls[r].held))

NextResolve ==
    \/ ResolveStart
    \/ ResolveTry
    \/ ResolveLookup
    \/ ResolveStore
    \/ ResolveRefineStart
    \/ ResolveRefineRead
    \/ ResolveRefineWrite

SpecResolve == InitResolve /\ [][NextResolve]_vars

----------------------------------------------------------------------------
(* The claims *)

\* what a caller observes of the authoritative fields
Observed(self) == <<category(self).ret, base(self).ret, variable_names(self).ret>>

IsNonEmpty(nms) == nms # None /\ nms.v # <<>>

\* C1: after _refine_category_ on an object whose category is already set,
\* no binding cached before the call is still in the attribute cache.
C1_RefineInvalidatesCache ==
    (op.name = "_refine_category_" /\ pre._category # None)
        => \A n \in AttrNames :
              pre.__cached_methods[n] # Absent => __cached_methods[n] = Absent

\* C2: after __setstate__ completes for a version 0 or version 1 record, the
\* attribute cache is empty.
C2_RestoreEmptiesCache ==
    (op.name = "__setstate__" /\ ret.exc = "none" /\ version_of(op.d) \in {0, 1})
        => __cached_methods = EmptyDict

\* C3: once names holds a non-empty sequence, no call changes it.
C3_NamesWriteOnce ==
    IsNonEmpty(pre._names) => _names = pre._names

\* C3 as amended: once names holds a non-empty sequence, no call other than
\* __setstate__ and __temporarily_change_names changes it.
C3_NamesWriteOnceButRestoreAndRename ==
    (IsNonEmpty(pre._names) /\ op.name \notin {"__setstate__", "__temporarily_change_names"})
        => _names = pre._names

\* a second _assign_names with the stored names was accepted and changed nothing
C3_Witness ==
    /\ op.name = "_assign_names"
    /\ op.names # None
    /\ IsNonEmpty(pre._names)
    /\ ret.exc = "none"

\* C4: category() always returns a category, which is the stored one; an
\* unset category becomes the category of objects, a set one is kept.
C4_CategoryIsTotal ==
    op.name = "category"
        => /\ ret.exc = "none"
           /\ ret.val \in Categories
           /\ ret.val = _category
           /\ pre._category = None => _category = Objects
           /\ pre._category # None => _category = pre._category

\* category() was called on an object whose category was unset
C4_Witness ==
    /\ op.name = "category"
    /\ pre._category = None
    /\ ret.val = Objects

\* C5: a call that finds the category set leaves it set to a sub-category
\* of (or the same as) the one it found.
C5_CategoryOnlyNarrows ==
    pre._category # None
        => (_category # None /\ is_subcategory(_category, pre._category))

\* C5 as amended: every call other than _init_category_ that finds the
\* category set leaves it set to a sub-category of (or the same as) the one
\* it found; _init_category_ replaces the category by its argument.
C5_CategoryOnlyNarrowsButInit ==
    /\ (pre._category # None /\ op.name # "_init_category_")
          => (_category # None /\ is_subcategory(_category, pre._category))
    /\ (op.name = "_init_category_" /\ op.c # None)
          => _category = (IF op.c.t = "list" THEN join(op.c.v) ELSE op.c)

\* a refinement narrowed a category that was set
C5_Witness ==
    /\ op.name = "_refine_category_"
    /\ pre._category # None
    /\ _category # pre._category
    /\ is_subcategory(_category, pre._category)

\* C6: __setstate__ with the record __getstate__ gives for the object, on
\* the object itself or on a new instance, leaves category(), base() and
\* variable_names() as they were; __getstate__ changes nothing and gives the
\* three fields tagged with version 1.
C6_RoundTrip ==
    /\ ((op.name = "__setstate__" /\ op.d = __getstate__(pre).ret.val.v) \/ op.name = "loads")
          => (ret.exc = "none" /\ Observed(Self) = Observed(pre))
    /\ op.name = "__getstate__"
          => /\ Self = pre
             /\ {"_category", "_base", "_names", "_pickle_version"} \subseteq DOMAIN ret.val.v
             /\ ret.val.v._category = pre._category
             /\ ret.val.v._base = pre._base
             /\ ret.val.v._names = pre._names
             /\ ret.val.v._pickle_version = 1

\* a new instance was restored from an object with a category, a base and names
C6_Witness ==
    /\ op.name = "loads"
    /\ pre._category \notin {None, Objects}
    /\ pre._base # None
    /\ IsNonEmpty(pre._names)
    /\ pre.__cached_methods # EmptyDict

\* C7: __setstate__ with a record whose version is neither 0 nor 1 raises
\* and leaves category, base and names unchanged.
C7_UnknownVersionFails ==
    (op.name = "__setstate__" /\ version_of(op.d) \notin {0, 1})
        => /\ ret.exc # "none"
           /\ _category = pre._category
           /\ _base = pre._base
           /\ _names = pre._names

\* C8: with names stored, _assign_names with a specification that
\* normalizes to the stored names returns silently, one that normalizes to
\* anything else raises ValueError, and names is unchanged either way; with
\* no specification the call changes nothing.
C8_AssignTwice ==
    (op.name = "_assign_names" /\ op.normalize)
        => /\ op.names = None => (ret = Return(None) /\ Self = pre)
           /\ (op.names # None /\ pre._names # None)
                 => LET n == normalize_names(op.ngens, op.names) IN
                    /\ _names = pre._names
                    /\ (n.exc = "none" /\ PyEq(n.val, pre._names)) => ret = Return(None)
                    /\ (n.exc = "none" /\ ~PyEq(n.val, pre._names)) => ret.exc = "ValueError"

\* a different, well-formed specification was rejected
C8_Witness ==
    /\ op.name = "_assign_names"
    /\ op.normalize
    /\ op.names # None
    /\ pre._names # None
    /\ normalize_names(op.ngens, op.names).exc = "none"
    /\ ret.exc = "ValueError"
    /\ _names = pre._names

\* C9: variable_names() raises ValueError when names is unset, returns the
\* stored names otherwise, and changes no field.
C9_VariableNames ==
    op.name = "variable_names"
        => /\ pre._names = None => ret.exc = "ValueError"
           /\ pre._names # None => ret = Return(pre._names)
           /\ Self = pre

\* variable_names() was called before any names were stored
C9_Witness ==
    /\ op.name = "variable_names"
    /\ pre._names = None
    /\ ret.exc = "ValueError"

\* C10: a lookup of a cached name returns the cached binding without
\* searching, whatever the category is now; a lookup of a name that is not
\* cached and that the category's behaviour table defines searches once and
\* stores what it returns; so a binding is derived once for a cached name
\* and never for the others.
C10_ResolveOnce ==
    /\ op.name = "__getattr__"
          => LET n == op.attr IN
             /\ pre.__cached_methods[n] # Absent
                   => /\ ~op.searched
                      /\ ret = Return(pre.__cached_methods[n])
                      /\ __cached_methods = pre.__cached_methods
             /\ (/\ pre.__cached_methods[n] = Absent
                 /\ pre._category # None
                 /\ parent_class_attr(pre._category, n) # Absent)
                   => /\ op.searched
                      /\ ret = Return(parent_class_attr(pre._category, n))
                      /\ __cached_methods = [pre.__cached_methods EXCEPT ![n] = ret.val]
    /\ \A n \in AttrNames :
          lookups[n] = IF __cached_methods[n] # Absent THEN 1 ELSE 0

\* a cached binding was served after the category had changed under it
C10_Witness ==
    /\ op.name = "__getattr__"
    /\ ~op.searched
    /\ _category # None
    /\ ret.val # parent_class_attr(_category, op.attr)

\* C11: a lookup of a name that is not cached raises AttributeError, and
\* returns no value, when the category is unset and when the category is set
\* but its behaviour table does not define the name; it returns the table's
\* binding when the category's behaviour table defines the name.
C11_MissFailsOrSucceeds ==
    (op.name = "__getattr__" /\ pre.__cached_methods[op.attr] = Absent)
        => LET defined == /\ pre._category # None
                          /\ parent_class_attr(pre._category, op.attr) # Absent
           IN /\ ~defined => (ret.exc = "AttributeError" /\ ret.val = None)
              /\ defined => ret = Return(parent_class_attr(pre._category, op.attr))

\* a name that no behaviour table defines was looked up on an object whose
\* category is set
C11_Witness ==
    /\ op.name = "__getattr__"
    /\ pre._category \notin {None, Objects}
    /\ pre.__cached_methods[op.attr] = Absent
    /\ parent_class_attr(pre._category, op.attr) = Absent
    /\ ret.exc = "AttributeError"

\* the categories an argument of _refine_category_ names: a list's elements
\* or the single category
categories_of(c) == IF c.t \in {"list", "tuple"} THEN c.v ELSE <<c>>

\* C12: after _refine_category_(A), a further _refine_category_(B) leaves
\* the category that one _refine_category_(join([A, B])) leaves when applied
\* to the object as it was before the first call, whether its category was
\* unset or set, for all categories and lists of categories A and B.
C12_RefineComposes ==
    (op.name = "_refine_category_" /\ op.c # None)
        => \A B \in CategoryArgs :
              _refine_category_(Self, B).self._category
                 = _refine_category_(pre, join(categories_of(op.c) \o categories_of(B))).self._category

\* a refinement narrowed a category that was set, and a second one can
\* narrow it further
C12_Witness ==
    /\ op.name = "_refine_category_"
    /\ pre._category # None
    /\ _category # pre._category
    /\ \E B \in CategoryArgs : _refine_category_(Self, B).self._category # _category

\* C13: the hash is computed once: a __hash__ call that finds no hash
\* stored hashes the display form and stores the result; every other call on
\* the object (rename, _assign_names, _refine_category_, __setstate__)
\* leaves a stored hash as it is; and a __hash__ call that finds a hash
\* stored returns it without reading the display form.
C13_HashStable ==
    /\ (op.name = "__hash__" /\ pre._hash_value = -1)
          => /\ op.computed
             /\ ret = Return(PyInt(hash(repr(pre))))
             /\ _hash_value = ret.val.v
             /\ _hash_value # -1
    /\ (op.name = "__hash__" /\ pre._hash_value # -1)
          => /\ ~op.computed
             /\ ret = Return(PyInt(pre._hash_value))
    /\ (op.name \notin {"__init__", "loads"} /\ pre._hash_value # -1)
          => _hash_value = pre._hash_value

\* the stored hash was returned although the display form now hashes to
\* something else
C13_Witness ==
    /\ op.name = "__hash__"
    /\ ~op.computed
    /\ ret.val.v # hash(repr(Self))

\* C14: after __setstate__ completes, no hash is stored (_hash_value is
\* -1), so that the next __hash__ call hashes the display form anew.
C14_RestoreResetsHash ==
    (op.name = "__setstate__" /\ ret.exc = "none") => _hash_value = -1

\* a name as the contract wants it: non-empty, a letter first, then
\* letters, digits and underscores only
ValidName(N) ==
    /\ N # <<>>
    /\ N[1] \in Letters
    /\ \A i \in 1..Len(N) : N[i] \in Letters \cup Digits \cup {"_"}

\* C15: whenever normalize_names(n, spec) returns for a count n >= 0, the
\* result is a tuple of exactly n names, pairwise distinct, each non-empty,
\* starting with a letter and made of letters, digits and underscores only.
C15_NormalizedNames ==
    (op.name = "normalize_names" /\ op.ngens >= 0 /\ ret.exc = "none")
        => /\ ret.val.t = "tuple"
           /\ Len(ret.val.v) = op.ngens
           /\ \A i \in 1..Len(ret.val.v) : ValidName(ret.val.v[i])
           /\ \A i, j \in 1..Len(ret.val.v) : ret.val.v[i] = ret.val.v[j] => i = j

\* a prefix was expanded to two indexed names
C15_Witness ==
    /\ op.name = "normalize_names"
    /\ op.names = PyStr(<<"x", "_">>)
    /\ ret = Return(PyTuple(<<<<"x", "_", "0">>, <<"x", "_", "1">>>>))

\* C16: normalize_names(n, t) for a tuple t that normalize_names(n, spec)
\* returned also returns, and returns t.
C16_Idempotent ==
    (op.name = "normalize_names" /\ op.again) => ret = Return(op.names)

\* a tuple of two names, obtained from a str, was normalized again
C16_Witness ==
    /\ op.name = "normalize_names"
    /\ op.again
    /\ Len(op.names.v) = 2
    /\ ret.exc = "none"

\* the checks of certify_names on the name at position i, in their order
NotAlnumWithoutUnderscores(N) ==
    LET r == SelectSeq(N, LAMBDA c : c # "_")
    IN r = <<>> \/ \E k \in 1..Len(r) : r[k] \notin Letters \cup Digits
Violation(nms, i) ==
    LET N == nms[i] IN
    IF ~IsStr(N) THEN <<"TypeError", "must be a string">>
    ELSE IF N = <<>> THEN <<"ValueError", "variable name must be nonempty">>
    ELSE IF NotAlnumWithoutUnderscores(N) THEN <<"ValueError", "is not alphanumeric">>
    ELSE IF N[1] \notin Letters THEN <<"ValueError", "does not start with a letter">>
    ELSE IF \E j \in 1..(i - 1) : nms[j] = N THEN <<"ValueError", "appears more than once">>
    ELSE <<"none", "">>

\* C17: certify_names returns true when every name passes every check, and
\* otherwise raises the error of the first failing check (no str, empty, not
\* alphanumeric without its underscores, no letter first, seen before) of
\* the first name that fails one.
C17_CertifyFirstViolation ==
    op.name = "certify_names"
        => LET nms == iter(op.names)
               failing == {i \in 1..Len(nms) : Violation(nms, i)[1] # "none"}
           IN IF failing = {} THEN ret = Return(PyBool(TRUE))
              ELSE LET first == CHOOSE i \in failing : \A j \in failing : i <= j
                   IN /\ ret.exc = Violation(nms, first)[1]
                      /\ ret.msg = Violation(nms, first)[2]

\* the second name of a list failed two checks, and the earlier one was
\* reported
C17_Witness ==
    /\ op.name = "certify_names"
    /\ op.names.t = "list"
    /\ Len(op.names.v) = 2
    /\ ValidName(op.names.v[1])
    /\ NotAlnumWithoutUnderscores(op.names.v[2])
    /\ op.names.v[2][1] \notin Letters
    /\ ret.msg = "is not alphanumeric"

\* the exceptions by which normalize_names rejects a specification
ValidationError == {"ValueError", "IndexError"}

\* C18: for a count n >= 0, normalize_names(n, spec) raises ValueError when
\* a name obtained from spec is empty, not alphanumeric, does not start
\* with a letter or occurs twice, and raises IndexError when the names are
\* well formed and their number differs from n; it never returns a tuple of
\* a length other than n.
C18_RejectsMalformed ==
    (op.name = "normalize_names" /\ op.ngens >= 0)
        => LET nms == names_of_spec(op.ngens, op.names).v
               malformed == \/ \E i \in 1..Len(nms) : ~ValidName(nms[i])
                            \/ \E i, j \in 1..Len(nms) : i # j /\ nms[i] = nms[j]
           IN /\ malformed => ret.exc = "ValueError"
              /\ (~malformed /\ Len(nms) # op.ngens) => ret.exc = "IndexError"
              /\ (malformed \/ Len(nms) # op.ngens) => ret.exc \in ValidationError
              /\ ret.exc = "none" => Len(ret.val.v) = op.ngens

\* a list of well-formed names of the wrong length was rejected
C18_Witness ==
    /\ op.name = "normalize_names"
    /\ op.ngens = 2
    /\ op.names = PyList(<<<<"x">>>>)
    /\ ret.exc = "IndexError"

\* the tower of the object o: o, its base, the base of that, up to the
\* first object that is its own base or has none, cut off once longer than
\* the heap has objects
RECURSIVE tower_from(_, _, _)
tower_from(h, o, n) ==
    IF n = 0 \/ h[o]._base \in {o, "None"} THEN <<o>>
    ELSE <<o>> \o tower_from(h, h[o]._base, n - 1)
Tower(h, o) == tower_from(h, o, Cardinality(ObjectIds))
EndsSelfBased(h, o) ==
    LET c == Tower(h, o) IN h[c[Len(c)]]._base = c[Len(c)]

\* the generators by name of a tower that ends in a self-based object: for
\* each name of an object above that last one, the generator of the first
\* object of the tower that has the name
NearestGens(h, o) ==
    LET c == Tower(h, o)
        has(i, k) == \E j \in 1..Len(h[c[i]].gens) : h[c[i]].gens[j] = k
        above == 1..(Len(c) - 1)
    IN [k \in UNION {{h[c[i]].gens[j] : j \in 1..Len(h[c[i]].gens)} : i \in above} |->
           Gen(c[CHOOSE i \in above : has(i, k) /\ \A j \in above : has(j, k) => i <= j], k)]

C19_Result ==
    (op.name = "gens_dict_recursive" /\ op.step = "done" /\ EndsSelfBased(heap, op.obj))
        => ret = Return(PyDict(NearestGens(heap, op.obj)))

C19_Called ==
    op.name = "gens_dict_recursive" /\ op.step = "call" /\ EndsSelfBased(heap, op.obj)

C19_Returned ==
    op.name = "gens_dict_recursive" /\ op.step = "done" /\ ret.exc = "none"

\* C19: on a tower of bases that ends in an object that is its own base,
\* gens_dict_recursive() terminates and returns, for an object with a
\* distinct base, its own gens_dict() united with what the base returns,
\* its own generator taken for a name of both, and the empty dict for an
\* object that is its own base.
C19_GensDictRecursive == []C19_Result /\ (C19_Called ~> C19_Returned)

\* the call returned for an object over two bases, with a generator name
\* shared between the object and its base
C19_Witness ==
    /\ op.name = "gens_dict_recursive"
    /\ op.step = "done"
    /\ Len(Tower(heap, op.obj)) = 3
    /\ EndsSelfBased(heap, op.obj)
    /\ heap[op.obj].gens = <<<<"x">>>>
    /\ heap[heap[op.obj]._base].gens = <<<<"x">>, <<"y">>>>
    /\ ret.val.v[<<"x">>] = Gen(op.obj, <<"x">>)
    /\ ret.val.v[<<"y">>] = Gen(heap[op.obj]._base, <<"y">>)

\* C20: __dir__() returns the names of the directory of the object's class
\* and of the directory of the category's behaviour table, each once, and
\* changes no field of the object, whether the category is set or unset.
C20_DirReadOnly ==
    op.name = "__dir__"
        => /\ Self = pre
           /\ ret.exc = "none"
           /\ \A i, j \in 1..Len(ret.val.v) : ret.val.v[i] = ret.val.v[j] => i = j
           /\ {ret.val.v[i] : i \in 1..Len(ret.val.v)}
                 = {dir_class[i] : i \in 1..Len(dir_class)}
                   \cup (IF _category = None THEN {}
                         ELSE {"__class__"} \cup UNION {ParentMethods[a] : a \in _category.v})

\* the fields a version 1 record must carry
IsComplete(d) == {"_category", "_base", "_names"} \subseteq DOMAIN d

\* C21: __setstate__ with a version 1 record keeps the category
\* information of the object: an object without a category takes the
\* record's, an object with one takes the join of its own and the
\* record's, and a record without a category leaves the object's as it is;
\* in each case base and names become the record's.
C21_RestoreKeepsCategory ==
    (op.name = "__setstate__" /\ version_of(op.d) = 1 /\ IsComplete(op.d))
        => /\ ret = Return(None)
           /\ (op.d._category # None /\ pre._category = None) => _category = op.d._category
           /\ (op.d._category # None /\ pre._category # None)
                 => _category = join(<<pre._category, op.d._category>>)
           /\ op.d._category = None => _category = pre._category
           /\ _base = op.d._base
           /\ _names = op.d._names

\* a version 1 record with another category was restored into an object
\* that had one, and the object has both now
C21_Witness ==
    /\ op.name = "__setstate__"
    /\ version_of(op.d) = 1
    /\ IsComplete(op.d)
    /\ pre._category = Magmas
    /\ op.d._category = EnumeratedSets
    /\ _category = Cat({"Magmas", "EnumeratedSets"})
    /\ _names # pre._names

\* C22: __setstate__ with an untagged (version 0) record sets base and
\* names to the record's and leaves the category of the object as it is,
\* whatever else the record carries.
C22_LegacyRestore ==
    (op.name = "__setstate__" /\ version_of(op.d) = 0
        /\ {"_base", "_names"} \subseteq DOMAIN op.d)
        => /\ ret = Return(None)
           /\ _category = pre._category
           /\ _base = op.d._base
           /\ _names = op.d._names

\* an untagged record that carries a category was restored into an object
\* with another category
C22_Witness ==
    /\ op.name = "__setstate__"
    /\ version_of(op.d) = 0
    /\ IsComplete(op.d)
    /\ op.d._category = EnumeratedSets
    /\ pre._category = Magmas
    /\ _names = op.d._names
    /\ _names # pre._names

\* C23: _refine_category_(c) on an object whose category is unset has the
\* effect of _init_category_(c), which stores the join of a list or tuple
\* and a single category as it is; on an object with the category C it
\* stores the join of C and the categories of c.
C23_RefineIsInitOrJoin ==
    op.name = "_refine_category_"
        => /\ pre._category = None
                 => /\ Self = _init_category_(pre, op.c).self
                    /\ ret = _init_category_(pre, op.c).ret
                    /\ (op.c # None /\ op.c.t \in {"list", "tuple"}) => _category = join(op.c.v)
                    /\ (op.c # None /\ op.c.t \notin {"list", "tuple"}) => _category = op.c
           /\ pre._category # None
                 => /\ _category = join(<<pre._category>> \o categories_of(op.c))
                    /\ [Self EXCEPT !._category = pre._category] = pre

\* a list of categories refined an object whose category was unset
C23_Witness ==
    /\ op.name = "_refine_category_"
    /\ pre._category = None
    /\ op.c.t = "list"
    /\ _category = Cat({"Magmas", "EnumeratedSets"})

\* the LaTeX names stored in the object: Absent when the attribute is not
\* there, None when it is there and holds None
Cached(self) == dict_attr(self, "_latex_names")

\* the LaTeX forms, name by name, of a tuple of names
LatexForms(nms) == PyList([i \in 1..Len(nms.v) |-> latex_variable_name(nms.v[i])])

\* LaTeX names that are stored are the LaTeX forms of the names stored
Consistent(self) ==
    (Cached(self) # Absent /\ Cached(self) # None)
        => (self._names # None /\ Cached(self) = LatexForms(self._names))

\* C24: in every reachable state, LaTeX names that have been computed are
\* the LaTeX forms, name by name, of the names stored at that time.
C24_LatexNamesConsistent == Consistent(Self)

\* C24 as amended: a call other than __setstate__ and
\* __temporarily_change_names keeps stored LaTeX names the LaTeX forms of
\* the stored names; a __setstate__ that returns replaces, on an instance
\* with a __dict__, the stored LaTeX names by those the record carries, or
\* drops them when it carries none, and one that raises leaves them;
\* __temporarily_change_names, when it returns, has stored the names and
\* the LaTeX names it was given, whether or not these are the LaTeX forms
\* of the names; an instance without a __dict__ never stores LaTeX names.
C24_LatexNamesConsistentButRestoreAndRename ==
    /\ (op.name \notin {"__setstate__", "loads", "__temporarily_change_names"}
           /\ Consistent(pre))
          => Consistent(Self)
    /\ (op.name \in {"__setstate__", "loads"} /\ ret.exc = "none" /\ __dict__.t = "dict")
          => Cached(Self) = (IF "_latex_names" \in DOMAIN op.d
                             THEN op.d._latex_names ELSE Absent)
    /\ (op.name = "__setstate__" /\ ret.exc # "none")
          => Cached(Self) = Cached(pre)
    /\ (op.name = "__temporarily_change_names" /\ ret.exc = "none")
          => (_names = op.names /\ Cached(Self) = op.latex_names)
    /\ __dict__.t = "nodict" => Cached(Self) = Absent

\* LaTeX names were computed for the names ('x',), and a __setstate__ that
\* stored other names dropped them with the instance dict it replaced
C24_Witness ==
    /\ op.name = "__setstate__"
    /\ version_of(op.d) = 1
    /\ Cached(pre) = PyList(<<<<"x">>>>)
    /\ pre._names = PyTuple(<<<<"x">>>>)
    /\ _names = PyTuple(<<<<"y">>>>)
    /\ Cached(Self) = Absent
    /\ latex_variable_names(Self).ret = Return(PyList(<<<<"y">>>>))

\* a str without a comma, the argument C25 is about
IsCommaFree(x) == x.t = "str" /\ \A i \in 1..Len(x.v) : x.v[i] # ","

Characters(s) == [i \in 1..Len(s) |-> <<s[i]>>]
Indexed(s, n) == [i \in 1..n |-> s \o int_str(i - 1)]
AllDistinct(ss) == \A i, j \in 1..Len(ss) : ss[i] = ss[j] => i = j

\* C25: for a str s without a comma, normalize_names(n, s) returns the
\* one-character names of s when s has n characters that are each a valid
\* name, and otherwise s followed by 0, ..., n-1; for an unknown n it
\* returns the single name s.
C25_ShapeDispatch ==
    (op.name = "normalize_names" /\ IsCommaFree(op.names) /\ ret.exc = "none")
        => LET s == op.names.v
               n == op.ngens
           IN ret.val.v =
                 IF n < 0 THEN <<s>>
                 ELSE IF Len(s) = n /\ \A i \in 1..Len(s) : ValidName(<<s[i]>>)
                 THEN Characters(s)
                 ELSE Indexed(s, n)

\* C25 as amended: for a str s without a comma, normalize_names(n, s) reads
\* s as its one-character names when n > 1, s has n characters, each is a
\* valid name and no two are equal; as the single name s when n is 1 or
\* unknown; and otherwise as s followed by 0, ..., n-1.  It returns these
\* names when they are valid and distinct and raises ValueError when not.
C25_ShapeDispatchSingleAndDistinct ==
    (op.name = "normalize_names" /\ IsCommaFree(op.names))
        => LET s == op.names.v
               n == op.ngens
               nms == IF n < 0 \/ n = 1 THEN <<s>>
                      ELSE IF /\ n > 1
                              /\ Len(s) = n
                              /\ \A i \in 1..Len(s) : ValidName(<<s[i]>>)
                              /\ AllDistinct(Characters(s))
                      THEN Characters(s)
                      ELSE Indexed(s, n)
           IN IF AllDistinct(nms) /\ \A i \in 1..Len(nms) : ValidName(nms[i])
              THEN ret = Return(PyTuple(nms))
              ELSE ret.exc = "ValueError"

\* a prefix of two characters was taken as the one name asked for
C25_Witness ==
    /\ op.name = "normalize_names"
    /\ op.ngens = 1
    /\ op.names = PyStr(<<"x", "y">>)
    /\ ret = Return(PyTuple(<<<<"x", "y">>>>))

\* C26: a lookup that raises changes no field of the object: the cache
\* gets no entry and an unset category stays unset; so after any
\* refinement to a category whose behaviour table defines the name, the
\* lookup searches again and returns the table's binding.
C26_FailedResolveChangesNothing ==
    (op.name = "__getattr__" /\ ret.exc # "none")
        => /\ Self = pre
           /\ __cached_methods[op.attr] = Absent
           /\ \A c \in CategoryArgs :
                 LET refined == _refine_category_(Self, c).self
                     later == getattr_from_category(refined, op.attr)
                 IN parent_class_attr(refined._category, op.attr) # Absent
                       => /\ later.searched
                          /\ later.ret = Return(parent_class_attr(refined._category, op.attr))

\* a lookup failed on an object whose category is unset, for a name that a
\* refinement will define
C26_Witness ==
    /\ op.name = "__getattr__"
    /\ ret.exc = "AttributeError"
    /\ pre._category = None
    /\ _category = None
    /\ \E c \in CategoryArgs :
          parent_class_attr(_refine_category_(Self, c).self._category, op.attr) # Absent

\* C27: __setstate__ with a version 0 or version 1 record that lacks
\* _base or _names leaves category, base and names as they were, whether
\* it raises or returns.
C27_RestoreAllOrNothing ==
    (op.name = "__setstate__" /\ version_of(op.d) \in {0, 1}
        /\ ~({"_base", "_names"} \subseteq DOMAIN op.d))
        => /\ _category = pre._category
           /\ _base = pre._base
           /\ _names = pre._names

\* C28: once _assign_names has stored the empty tuple of names, an
\* _assign_names with a specification that normalizes to one name or more
\* raises ValueError and names stays the empty tuple.
C28_EmptyNamesLocked ==
    (op.name = "_assign_names" /\ op.normalize /\ op.names # None
        /\ pre._names = PyTuple(<<>>))
        => LET n == normalize_names(op.ngens, op.names)
           IN (n.exc = "none" /\ n.val.v # <<>>)
                 => (ret.exc = "ValueError" /\ _names = PyTuple(<<>>))

\* names were offered to an object that holds the empty tuple of names,
\* and were rejected
C28_Witness ==
    /\ op.name = "_assign_names"
    /\ op.normalize
    /\ op.names # None
    /\ pre._names = PyTuple(<<>>)
    /\ normalize_names(op.ngens, op.names).exc = "none"
    /\ normalize_names(op.ngens, op.names).val.v # <<>>
    /\ ret.exc = "ValueError"
    /\ _names = PyTuple(<<>>)

\* the caller t missed the cache, looked the name up and stored the binding
Stored(t) ==
    calls[t].pc = "done" /\ calls[t].missed /\ calls[t].ret.exc = "none"

\* C29: when two callers look up the same name, both miss the cache, both
\* search and both store, with no _refine_category_ in between, both
\* return the same binding and the cache holds that binding for the name;
\* and the cache holds a binding other than the one the current category's
\* behaviour table gives only after a _refine_category_.
C29_InterleavedResolve ==
    op.name = "resolve"
        => /\ \A t, u \in Threads :
                 (/\ t # u
                  /\ Stored(t) /\ Stored(u)
                  /\ calls[t].name = calls[u].name
                  /\ ~calls[t].disturbed /\ ~calls[u].disturbed)
                    => /\ calls[t].ret = calls[u].ret
                       /\ __cached_methods[calls[t].name] = calls[t].ret.val
           /\ \A n \in AttrNames :
                 (__cached_methods[n] # Absent
                     /\ __cached_methods[n] # parent_class_attr(_category, n))
                    => op.refined

\* a refinement came between a caller's search and its store, and the
\* cache ends with the binding of the category that is no longer current
C29_Witness ==
    /\ op.name = "resolve"
    /\ \A t \in Threads : calls[t].pc = "done"
    /\ \E t \in Threads :
          /\ Stored(t)
          /\ calls[t].raced
          /\ __cached_methods[calls[t].name] = calls[t].attr
          /\ calls[t].attr # parent_class_attr(_category, calls[t].name)

====
